---- MODULE Spec2Model ----
(***************************************************************************)
(* Architecture-graph pipeline of Prompt-or-Die-Architect: the zod graph   *)
(* schema, the ELK layout adapter, the generation route handlers and the   *)
(* main page's generate / suggest refinement loop.                         *)
(*                                                                         *)
(* JavaScript values are modelled as follows.  An object is a record that  *)
(* carries every key the code reads; a key that is absent (or holds        *)
(* undefined, which JSON.stringify drops and zod's optional() accepts) has *)
(* the value Undef.  An array-valued key has a has-flag beside it, because *)
(* an array and Undef cannot share a TLA+ type.  A JSON value carries      *)
(* typeof: "object" for an object, otherwise what the value is instead     *)
(* (null, a string, undefined).  A text (a model answer, a response body)  *)
(* is a record [c, v]: c says whether the text is JSON ("json", v the      *)
(* value it denotes), not JSON ("raw", "empty") or missing ("null").       *)
(*                                                                         *)
(* Specifications: Spec (the main page with its server), SpecApi (direct   *)
(* callers of the routes), SpecConc (handler invocations running           *)
(* together), SpecValidate, SpecStackConfig and SpecProjectPlan (the       *)
(* schemas applied to bounded candidates), SpecLayout (layout() applied to *)
(* bounded graphs), SpecBusy and FairSpecBusy (the busy flag under         *)
(* interleaved button handlers), SpecBuilder (the Stack Builder page) and  *)
(* SpecStorage (the save and load routes over the data directory).         *)
(***************************************************************************)
EXTENDS Integers, Sequences, FiniteSets, TLC

VARIABLES
    rfNodes,    \* page.tsx: useNodesState, the rendered nodes
    rfEdges,    \* page.tsx: useEdgesState, the rendered edges
    busy,       \* page.tsx: useState(false), disables the buttons
    alerted,    \* the last alert() the page raised, "none" before any
    cl,         \* the page's operation in flight and where it is suspended
    req,        \* the route handler invocation in flight and its response
    nOps,       \* requests started so far (bounded)
    nEdits,     \* user edits of the canvas so far (bounded)
    candidate,  \* validator development: the value handed to safeParse
    parsed,     \* validator development: safeParse's result
    lgraph,     \* layout development: the graph handed to layout()
    lout,       \* layout development: layout()'s outcome
    reqs,       \* concurrent development: the handler invocations running together
    ui,         \* button development: the page's operations in flight and its document
    store       \* storage development: the files under data/ and the last response

vars == <<rfNodes, rfEdges, busy, alerted, cl, req, nOps, nEdits,
          candidate, parsed, lgraph, lout, reqs, ui, store>>

pageVars == <<rfNodes, rfEdges, busy, alerted, cl, req, nOps, nEdits>>
validatorVars == <<candidate, parsed>>
layoutVars == <<lgraph, lout>>
concVars == <<reqs>>
uiVars == <<ui>>
storeVars == <<store>>

(***************************************************************************)
(* Bounds of the model.                                                    *)
(***************************************************************************)
MaxNodes == 2
MaxEdges == 1
MaxOps == 2
MaxEdits == 1
MaxRequests == 2
MaxDepth == 2

(***************************************************************************)
(* Values.                                                                 *)
(***************************************************************************)
Undef == "<undefined>"

Kinds == {"service", "db", "queue", "page", "step"}

Node(i, l, k) == [id |-> i, label |-> l, kind |-> k]

Edge(i, s, t, l) == [id |-> i, source |-> s, target |-> t, label |-> l]

\* A JSON object with the keys the handlers and the page read.
Obj(hn, ns, he, es, err, det) ==
    [typeof |-> "object", hasNodes |-> hn, nodes |-> ns, hasEdges |-> he, edges |-> es,
     error |-> err, details |-> det]

EmptyObj == Obj(FALSE, <<>>, FALSE, <<>>, Undef, {})

\* a JSON value that is no object: null, a string, or nothing at all
NonObject(t) == [EmptyObj EXCEPT !.typeof = t]

Graph(ns, es) == Obj(TRUE, ns, TRUE, es, Undef, {})

ErrorObj(msg, det) == Obj(FALSE, <<>>, FALSE, <<>>, msg, det)

\* request texts: one under and one over the handlers' min(10)
ShortText == "too short"

LongText == "two services and a database"

SeqsUpTo(S, n) == UNION {[1..k -> S] : k \in 0..n}

\* Inputs of the validator and layout developments.
Nodes == {Node(i, l, k) : i \in {Undef, "", "a"}, l \in {"", "A"}, k \in {Undef, "cache"}}

Edges == {Edge(i, s, t, Undef) : i \in {"", "e1"}, s \in {"", "a"}, t \in {"", "z"}}

Candidates ==
    {Obj(hn, IF hn THEN ns ELSE <<>>, he, IF he THEN es ELSE <<>>, Undef, {}) :
        hn \in BOOLEAN, he \in BOOLEAN,
        ns \in SeqsUpTo(Nodes, MaxNodes), es \in SeqsUpTo(Edges, MaxEdges)}

\* nodes that differ in their kind only: every declared kind, none, and two
\* values outside the enumeration
KindNodes == {Node("a", "A", k) : k \in Kinds \cup {Undef, "cache", ""}}

KindCandidates == {Graph(ns, <<>>) : ns \in SeqsUpTo(KindNodes, MaxNodes)}

\* candidates that are no graph at all: non-objects, and objects whose
\* elements are empty objects
MalformedCandidates ==
    {NonObject(t) : t \in {"null", "string", "undefined"}}
    \cup {Obj(TRUE, ns, he, es, Undef, {}) :
            he \in BOOLEAN,
            ns \in SeqsUpTo({Node(Undef, Undef, Undef)}, MaxNodes),
            es \in SeqsUpTo({Edge(Undef, Undef, Undef, Undef)}, MaxEdges)}

(***************************************************************************)
(* src/types/schemas.ts: the zod schemas, as safeParse evaluates them.     *)
(***************************************************************************)
\* z.string().min(1)
StringMin1(v) == v # Undef /\ Len(v) >= 1

\* kind as z.string().optional(): any string passes
KindOkOpen(v) == TRUE

\* z.enum(["service", "db", "queue", "page", "step"]).optional()
KindOk(v) == v = Undef \/ v \in Kinds

\* A schema that forgets label's min(1).
GraphNodeSchemaLabelUnchecked(n) == StringMin1(n.id) /\ n.label # Undef /\ KindOk(n.kind)

GraphNodeSchema(n) == StringMin1(n.id) /\ StringMin1(n.label) /\ KindOk(n.kind)

\* label is z.string().optional(): Undef or any string passes
GraphEdgeSchema(e) == StringMin1(e.id) /\ StringMin1(e.source) /\ StringMin1(e.target)

NodesIssue(g) == ~g.hasNodes \/ \E i \in DOMAIN g.nodes : ~GraphNodeSchema(g.nodes[i])

\* a schema that also resolves every edge's source and target among the nodes
EdgesIssueResolving(g) ==
    \/ ~g.hasEdges
    \/ \E i \in DOMAIN g.edges : ~GraphEdgeSchema(g.edges[i])
    \/ \E i \in DOMAIN g.edges :
          \/ g.edges[i].source \notin {g.nodes[j].id : j \in DOMAIN g.nodes}
          \/ g.edges[i].target \notin {g.nodes[j].id : j \in DOMAIN g.nodes}

EdgesIssue(g) == ~g.hasEdges \/ \E i \in DOMAIN g.edges : ~GraphEdgeSchema(g.edges[i])

\* parsed.error.flatten(): the top-level keys that carry an issue (fieldErrors),
\* or formErrors when the candidate itself is no object
Flatten(g) ==
    IF g.typeof # "object" THEN {"formErrors"}
    ELSE (IF NodesIssue(g) THEN {"nodes"} ELSE {}) \cup (IF EdgesIssue(g) THEN {"edges"} ELSE {})

\* GraphSchema.parse(g): throws the ZodError instead of returning it
SafeParseGraphAsParse(g) ==
    [success |-> Flatten(g) = {}, details |-> Flatten(g), threw |-> Flatten(g) # {}]

\* GraphSchema.safeParse(g): the issues are collected and returned
SafeParseGraph(g) == [success |-> Flatten(g) = {}, details |-> Flatten(g), threw |-> FALSE]

NotParsed == [success |-> FALSE, details |-> {"<not parsed>"}, threw |-> FALSE]

(***************************************************************************)
(* src/lib/layout.ts: the layout adapter over elkjs.                       *)
(***************************************************************************)
NodeWidth == 200
NodeHeight == 80
NodeNodeSpacing == 40
LayerSpacing == 60

\* the graph handed to elk.layout: children and edges built by the two map()s
ElkGraph(g) ==
    [children |-> [i \in DOMAIN g.nodes |->
                      [id |-> g.nodes[i].id, width |-> NodeWidth, height |-> NodeHeight]],
     edges |-> [i \in DOMAIN g.edges |->
                   [id |-> g.edges[i].id, sources |-> <<g.edges[i].source>>,
                    targets |-> <<g.edges[i].target>>]]]

ChildIds(eg) == {eg.children[i].id : i \in DOMAIN eg.children}

\* elkjs's JSON importer rejects an element without an id and an edge whose
\* source or target names no child ("Referenced shape does not exist")
ElkRejects(eg) ==
    \/ \E i \in DOMAIN eg.children : eg.children[i].id = Undef
    \/ \E i \in DOMAIN eg.edges :
          \/ eg.edges[i].id = Undef
          \/ eg.edges[i].sources[1] \notin ChildIds(eg)
          \/ eg.edges[i].targets[1] \notin ChildIds(eg)

ElkThrew == [threw |-> TRUE, children |-> <<>>]

\* a result of elk.layout: every child comes back, with coordinates (here the
\* children side by side, a layer apart) or without any
ElkPlaced(eg, withXY) ==
    [threw |-> FALSE,
     children |-> [i \in DOMAIN eg.children |->
                      [id |-> eg.children[i].id, hasXY |-> withXY,
                       x |-> IF withXY THEN (i - 1) * (NodeWidth + LayerSpacing) ELSE 0,
                       y |-> IF withXY THEN (i - 1) * (NodeHeight + NodeNodeSpacing) ELSE 0]]]

\* elkjs is an external library: what it answers is a choice among the
\* outcomes it can produce for the graph it is handed
ElkOutcomes(eg) == IF ElkRejects(eg) THEN {ElkThrew} ELSE {ElkPlaced(eg, b) : b \in BOOLEAN}

\* res.children?.forEach((c) => { pos[c.id] = { x: c.x ?? 0, y: c.y ?? 0 } })
PosOf(children) ==
    [k \in {children[i].id : i \in DOMAIN children} |->
        LET last == CHOOSE i \in DOMAIN children :
                        /\ children[i].id = k
                        /\ \A j \in DOMAIN children : j > i => children[j].id # k
        IN  [x |-> IF children[last].hasXY THEN children[last].x ELSE 0,
             y |-> IF children[last].hasXY THEN children[last].y ELSE 0]]

NoPos == [k \in {} |-> [x |-> 0, y |-> 0]]

\* a layout that reads a missing array as an empty one
LayoutTypeErrorLenient(g) == FALSE

\* graph.nodes.map / graph.edges.map throw a TypeError on a missing array,
\* before elk is called
LayoutTypeError(g) == ~g.hasNodes \/ ~g.hasEdges

\* layout(graph), once elk has answered o: the awaited promise rejects with
\* whatever elk threw, or resolves to pos
LayoutResult(o) ==
    IF o.threw THEN [threw |-> TRUE, pos |-> NoPos]
    ELSE [threw |-> FALSE, pos |-> PosOf(o.children)]

(***************************************************************************)
(* Texts: model answers and response bodies.                               *)
(***************************************************************************)
NullText == [c |-> "null", v |-> EmptyObj]

EmptyText == [c |-> "empty", v |-> EmptyObj]

RawText == [c |-> "raw", v |-> EmptyObj]

\* JSON.stringify(v): the text that denotes v
JsonText(v) == [c |-> "json", v |-> v]

\* JSON.parse(t) throws a SyntaxError unless t is JSON
ParseThrows(t) == t.c # "json"

\* the content used as it is, without the fallback
OrEmptyObjectMissing(t) == t

\* content ?? "{}"
OrEmptyObject(t) == IF t.c = "null" THEN JsonText(EmptyObj) ELSE t

\* content || ""
OrEmptyString(t) == IF t.c \in {"null", "empty"} THEN EmptyText ELSE t

(***************************************************************************)
(* The model service: client.chat.completions.create is an oracle that     *)
(* throws or answers with some content.                                    *)
(***************************************************************************)
Exceptions == {"timeout", "auth", "rateLimit"}

\* e.message of what the OpenAI client throws
ExcMessage(e) ==
    CASE e = "timeout" -> "Request timed out."
      [] e = "auth" -> "401 Incorrect API key provided"
      [] OTHER -> "429 Rate limit reached"

\* a node that also has the optional keys group and data
NodeWith(i, l, k, grp, d) == [id |-> i, label |-> l, kind |-> k, group |-> grp, data |-> d]

\* an edge that also has the optional key directed
EdgeWith(i, s, t, l, dir) == [id |-> i, source |-> s, target |-> t, label |-> l, directed |-> dir]

ModelNodes == {Node("a", "A", Undef), Node("a", "", "cache"), NodeWith("b", "B", "db", "core", "{}")}

ModelEdges == {EdgeWith("e1", "a", "b", "calls", TRUE), Edge("e2", "a", "z", Undef)}

ModelObjs ==
    {Obj(TRUE, ns, he, IF he THEN es ELSE <<>>, Undef, {}) :
        he \in BOOLEAN,
        ns \in SeqsUpTo(ModelNodes, MaxNodes), es \in SeqsUpTo(ModelEdges, MaxEdges)}
    \cup {EmptyObj}

ModelTexts == {NullText, EmptyText, RawText} \cup {JsonText(o) : o \in ModelObjs}

ModelAnswers ==
    {[threw |-> TRUE, exc |-> e, content |-> NullText] : e \in Exceptions}
    \cup {[threw |-> FALSE, exc |-> "none", content |-> t] : t \in ModelTexts}

(***************************************************************************)
(* Route handlers (src/app/api/**/route.ts) and the generate* functions of *)
(* lib/ai.  A request record is one invocation: its input, where the       *)
(* handler stands, how many model calls it has issued and its response.    *)
(***************************************************************************)
Endpoints == {"fromText", "suggest", "stack", "plan", "scaffold", "docs", "estimate"}

\* generateDocsFromPlan has no route in the repository: it is invoked as a function
Tasks == Endpoints \cup {"docsPlan"}

NoStack == [present |-> FALSE, type |-> Undef, framework |-> Undef]

Stack(t, f) == [present |-> TRUE, type |-> t, framework |-> f]

Input(str, type, graph, hasPlan, stack) ==
    [str |-> str, type |-> type, graph |-> graph, hasPlan |-> hasPlan, stack |-> stack]

NoReq ==
    [phase |-> "none", ep |-> "none", from |-> "none",
     input |-> Input(Undef, Undef, EmptyObj, FALSE, NoStack),
     calls |-> 0, validated |-> FALSE, status |-> 0, body |-> NullText,
     answer |-> NullText, exc |-> "none", messages |-> <<>>]

\* the page after mount, no button pressed: no operation in flight, docJson ""
NoUi == [ops |-> <<>>, docJson |-> FALSE, last |-> [op |-> "none", outcome |-> "none"]]

NoSession == <<>>

\* no request has been answered
NoResponse ==
    [op |-> "none", by |-> NoSession, id |-> <<>>, status |-> 0,
     data |-> [owner |-> NoSession, graph |-> EmptyObj, doc |-> Undef]]

\* the data directory is empty
NoStore == [files |-> {}, last |-> NoResponse]

\* no invocation is running
NoReqs == [i \in 1..MaxRequests |-> NoReq]

NewReq(ep, from, input) == [NoReq EXCEPT !.phase = "received", !.ep = ep, !.from = from, !.input = input]

Respond(r, status, body) == [r EXCEPT !.phase = "responded", !.status = status, !.body = body]

\* an exception leaves the handler: no Response is constructed
Escape(r) == [r EXCEPT !.phase = "escaped"]

\* client.chat.completions.create(...) is awaited
CallModel(r) == [r EXCEPT !.phase = "calling", !.calls = @ + 1]

\* z.string(): any string passes
StringAny(v) == v # Undef

\* z.string().min(10)
StringMin10(v) == v # Undef /\ Len(v) >= 10

StackTypes == {"web", "mobile", "backend", "blockchain", "ai"}

Frameworks ==
    {"nextjs", "react", "vue", "svelte", "solid", "flutter", "react-native", "fastapi",
     "hono", "express", "hardhat", "anchor", "langchain"}

\* StackConfigSchema.optional() on the keys modelled
StackOptionalOk(st) == ~st.present \/ (st.type \in StackTypes /\ st.framework \in Frameworks)

GenericError(ep) ==
    CASE ep = "stack" -> "Failed to generate stack recommendation"
      [] ep = "plan" -> "Failed to generate project plan"
      [] ep = "scaffold" -> "Failed to generate scaffold"
      [] ep = "estimate" -> "Failed to estimate"
      [] OTHER -> "Failed to generate docs"

\* the handlers that JSON.parse the model's content and re-stringify the value
Parsing == {"stack", "plan", "scaffold", "estimate"}

\* lib/ai: the system instruction of the system-graph task
GRAPH_JSON_INSTRUCTIONS == "Return JSON with shape { nodes, edges }. kind: service|db|queue|page|step"

\* the system instruction of the user-flow task
USER_FLOW_JSON_INSTRUCTIONS == "Return JSON with shape { nodes, edges }. kind: page|step"

\* `${v}` in a template literal
Interpolate(v) == IF v = Undef THEN "undefined" ELSE v

Message(role, content) == [role |-> role, content |-> content]

\* a handler that takes any type that is given for the user-flow task
FromTextMessagesTruthy(in) ==
    IF in.type # Undef
    THEN <<Message("system", USER_FLOW_JSON_INSTRUCTIONS),
           Message("user", "Turn this idea into a user flow graph. " \o Interpolate(in.str))>>
    ELSE <<Message("system", GRAPH_JSON_INSTRUCTIONS),
           Message("user", "Turn this idea into a system graph. " \o Interpolate(in.str))>>

\* from-text/route.ts 7-18: systemPrompt, userPrompt and the messages array
FromTextMessages(in) ==
    IF in.type = "user-flow"
    THEN <<Message("system", USER_FLOW_JSON_INSTRUCTIONS),
           Message("user", "Turn this idea into a user flow graph. " \o Interpolate(in.str))>>
    ELSE <<Message("system", GRAPH_JSON_INSTRUCTIONS),
           Message("user", "Turn this idea into a system graph. " \o Interpolate(in.str))>>

\* suggest/route.ts 7: a handler that skips the schema
SuggestInputOkUnchecked(g) == TRUE

SuggestInputOk(g) == SafeParseGraph(g).success

\* The handler from its entry to its first await of the model or to its
\* early response.
Handle(r) ==
    CASE r.ep = "suggest" ->
            IF ~SuggestInputOk(r.input.graph)
            THEN Respond(r, 400, JsonText(ErrorObj("Invalid graph payload",
                                                   SafeParseGraph(r.input.graph).details)))
            ELSE CallModel([r EXCEPT !.validated = TRUE])
      [] r.ep = "fromText" -> CallModel([r EXCEPT !.messages = FromTextMessages(r.input)])
      [] r.ep = "stack" ->
            IF ~StringMin10(r.input.str)
            THEN Respond(r, 500, JsonText(ErrorObj(GenericError(r.ep), {})))
            ELSE CallModel([r EXCEPT !.validated = TRUE])
      [] r.ep = "plan" ->
            IF ~(StringMin10(r.input.str) /\ StackOptionalOk(r.input.stack))
            THEN Respond(r, 500, JsonText(ErrorObj(GenericError(r.ep), {})))
            ELSE CallModel([r EXCEPT !.validated = TRUE])
      [] r.ep = "scaffold" ->
            \* generateScaffold reads plan.title: a TypeError without a plan
            IF ~r.input.hasPlan
            THEN Respond(r, 500, JsonText(ErrorObj(GenericError(r.ep), {})))
            ELSE CallModel(r)
      [] r.ep = "docs" ->
            IF r.input.str = Undef \/ r.input.str = ""
            THEN Respond(r, 400, JsonText(ErrorObj("Missing 'prompt'", {})))
            ELSE CallModel([r EXCEPT !.validated = TRUE])
      [] r.ep = "estimate" ->
            IF ~r.input.hasPlan
            THEN Respond(r, 400, JsonText(ErrorObj("Missing 'plan'", {})))
            ELSE CallModel([r EXCEPT !.validated = TRUE])
      [] OTHER -> CallModel(r)

\* a handler that calls the model again when the call failed or the content
\* does not parse
OnModelAnswerRetrying(r, a) ==
    IF (a.threw \/ a.content.c # "json") /\ r.calls < 2
    THEN CallModel(r)
    ELSE Respond(r, 200, OrEmptyObject(a.content))

\* a handler that validates the model's graph before answering
OnModelAnswerValidating(r, a) ==
    IF a.threw THEN Escape([r EXCEPT !.exc = a.exc])
    ELSE IF a.content.c = "json" /\ ~SafeParseGraph(a.content.v).success
    THEN Respond([r EXCEPT !.answer = a.content], 500, JsonText(ErrorObj("Invalid model output", {})))
    ELSE Respond([r EXCEPT !.answer = a.content], 200, OrEmptyObject(a.content))

\* The handler's continuation once the model call has settled with a.
OnModelAnswer(r, a) ==
    IF a.threw
    THEN LET rr == [r EXCEPT !.exc = a.exc]
         IN  CASE r.ep \in {"suggest", "fromText", "docsPlan"} -> Escape(rr)
               [] r.ep = "docs" -> Respond(rr, 500, JsonText(ErrorObj(ExcMessage(a.exc), {})))
               [] OTHER -> Respond(rr, 500, JsonText(ErrorObj(GenericError(r.ep), {})))
    ELSE LET rr == [r EXCEPT !.answer = a.content]
         IN  CASE r.ep \in Parsing ->
                    IF ParseThrows(OrEmptyObject(a.content))
                    THEN Respond(rr, 500, JsonText(ErrorObj(GenericError(r.ep), {})))
                    ELSE Respond(rr, 200, JsonText(OrEmptyObject(a.content).v))
               [] r.ep = "docsPlan" -> Respond(rr, 200, OrEmptyString(a.content))
               [] OTHER -> Respond(rr, 200, OrEmptyObject(a.content))

ServerHandle ==
    /\ req.phase = "received"
    /\ req.ep \in Tasks
    /\ req' = Handle(req)
    /\ UNCHANGED <<rfNodes, rfEdges, busy, alerted, cl, nOps, nEdits, validatorVars, layoutVars, concVars, uiVars, storeVars>>

ModelAnswer ==
    /\ req.phase = "calling"
    /\ \E a \in ModelAnswers : req' = OnModelAnswer(req, a)
    /\ UNCHANGED <<rfNodes, rfEdges, busy, alerted, cl, nOps, nEdits, validatorVars, layoutVars, concVars, uiVars, storeVars>>

(***************************************************************************)
(* src/app/page.tsx: the main page (Home).                                 *)
(***************************************************************************)
\* elk has not been asked
NoElk == [threw |-> FALSE, children |-> <<>>]

Idle(outcome, op, g, snap) ==
    [pc |-> "idle", op |-> op, g |-> g, snap |-> snap, outcome |-> outcome, elk |-> NoElk]

\* a toRF that does not look the positions up
ToRFNodesUnplaced(g, pos) ==
    [i \in DOMAIN g.nodes |->
        [id |-> g.nodes[i].id,
         type |-> "glass",
         data |-> [label |-> g.nodes[i].label,
                   kind |-> IF g.nodes[i].kind = Undef THEN "service" ELSE g.nodes[i].kind],
         position |-> [x |-> 0, y |-> 0]]]

\* toRF 48-53: g.nodes.map(...)
ToRFNodes(g, pos) ==
    [i \in DOMAIN g.nodes |->
        [id |-> g.nodes[i].id,
         type |-> "glass",
         data |-> [label |-> g.nodes[i].label,
                   kind |-> IF g.nodes[i].kind = Undef THEN "service" ELSE g.nodes[i].kind],
         position |-> IF g.nodes[i].id \in DOMAIN pos THEN pos[g.nodes[i].id]
                      ELSE [x |-> 0, y |-> 0]]]

\* a toRF that leaves the edge labels out
ToRFEdgesUnlabelled(g) ==
    [i \in DOMAIN g.edges |->
        [id |-> g.edges[i].id, source |-> g.edges[i].source, target |-> g.edges[i].target,
         label |-> Undef, animated |-> TRUE]]

\* toRF 54-60: g.edges.map(...)
ToRFEdges(g) ==
    [i \in DOMAIN g.edges |->
        [id |-> g.edges[i].id, source |-> g.edges[i].source, target |-> g.edges[i].target,
         label |-> g.edges[i].label, animated |-> TRUE]]

\* a toRF that keeps what was on the canvas and appends the new graph
MergeNodes(old, g, pos) == old \o ToRFNodes(g, pos)

\* setNodes(nodes)
SetNodes(old, g, pos) == ToRFNodes(g, pos)

\* setEdges(edges)
SetEdges(old, g) == ToRFEdges(g)

\* a snapshot that spreads the rendered node and edge ({ ...n, label, kind })
\* and so carries the renderer's fields along
SnapshotSpreading(ns, es) ==
    Graph([i \in DOMAIN ns |->
              [id |-> ns[i].id, label |-> ns[i].data.label, kind |-> ns[i].data.kind,
               type |-> ns[i].type, position |-> ns[i].position]],
          [i \in DOMAIN es |->
              [id |-> es[i].id, source |-> es[i].source, target |-> es[i].target,
               label |-> es[i].label, animated |-> es[i].animated]])

\* suggest 108-111: the snapshot of the render state
Snapshot(ns, es) ==
    Graph([i \in DOMAIN ns |-> Node(ns[i].id, ns[i].data.label, ns[i].data.kind)],
          [i \in DOMAIN es |-> Edge(es[i].id, es[i].source, es[i].target, es[i].label)])

FailureAlert(op) ==
    CASE op = "fromText" -> "Failed to generate diagram. Please check the console for details."
      [] op = "loadData" -> "Failed to load data. Please check the console for details."
      [] OTHER -> "Failed to suggest improvements. Please check the console for details."

\* fromText 65-71: the button is disabled while busy
FromTextStart ==
    /\ ~busy
    /\ cl.pc = "idle"
    /\ req.phase = "none"
    /\ nOps < MaxOps
    /\ busy' = TRUE
    /\ \E t \in {"system", "user-flow"} :
          req' = NewReq("fromText", "page", Input(LongText, t, EmptyObj, FALSE, NoStack))
    /\ cl' = [pc |-> "fetch", op |-> "fromText", g |-> EmptyObj, snap |-> EmptyObj,
              outcome |-> "none", elk |-> NoElk]
    /\ nOps' = nOps + 1
    /\ UNCHANGED <<rfNodes, rfEdges, alerted, nEdits, validatorVars, layoutVars, concVars, uiVars, storeVars>>

\* suggest 105-115
SuggestStart ==
    /\ ~busy
    /\ cl.pc = "idle"
    /\ req.phase = "none"
    /\ nOps < MaxOps
    /\ busy' = TRUE
    /\ req' = NewReq("suggest", "page",
                     Input(LongText, Undef, Snapshot(rfNodes, rfEdges), FALSE, NoStack))
    /\ cl' = [pc |-> "fetch", op |-> "suggest", g |-> EmptyObj,
              snap |-> Snapshot(rfNodes, rfEdges), outcome |-> "none", elk |-> NoElk]
    /\ nOps' = nOps + 1
    /\ UNCHANGED <<rfNodes, rfEdges, alerted, nEdits, validatorVars, layoutVars, concVars, uiVars, storeVars>>

\* loadData 194-200: the id typed into the prompt is not empty
LoadStart ==
    /\ ~busy
    /\ cl.pc = "idle"
    /\ req.phase = "none"
    /\ nOps < MaxOps
    /\ busy' = TRUE
    /\ req' = NewReq("load", "page", Input(Undef, Undef, EmptyObj, FALSE, NoStack))
    /\ cl' = [pc |-> "fetch", op |-> "loadData", g |-> EmptyObj, snap |-> EmptyObj,
              outcome |-> "none", elk |-> NoElk]
    /\ nOps' = nOps + 1
    /\ UNCHANGED <<rfNodes, rfEdges, alerted, nEdits, validatorVars, layoutVars, concVars, uiVars, storeVars>>

\* a stored record as the page reads it: data.graph, when it is there
Saved(hasGraph, g) == [hasGraph |-> hasGraph, graph |-> g]

\* what GET /api/load/[id] can answer: 401, 500, or the record of the file
LoadAnswers ==
    {[status |-> 401, body |-> JsonText(ErrorObj("Unauthorized", {}))],
     [status |-> 500, body |-> JsonText(ErrorObj("Failed to load data", {}))],
     [status |-> 200, body |-> JsonText(Saved(FALSE, EmptyObj))]}
    \cup {[status |-> 200, body |-> JsonText(Saved(TRUE, g))] : g \in ModelObjs}

\* the load route answers
LoadAnswer ==
    /\ req.phase = "received"
    /\ req.ep = "load"
    /\ \E a \in LoadAnswers : req' = Respond(req, a.status, a.body)
    /\ UNCHANGED <<rfNodes, rfEdges, busy, alerted, cl, nOps, nEdits, validatorVars, layoutVars, concVars, uiVars, storeVars>>

\* loadData 205: if (data.graph) guards toRF; fromText and suggest always call it
SkipsToRF(op, v) == op = "loadData" /\ ~v.hasGraph

\* the argument of toRF: data.graph for a load, the body otherwise
ToRFArgument(op, v) == IF op = "loadData" THEN v.graph ELSE v

\* what fetch resolves with: the handler's Response, or the framework's 500
\* when the handler threw
HttpStatus(r) == IF r.phase = "escaped" THEN 500 ELSE r.status

ResponseOk(r) == HttpStatus(r) >= 200 /\ HttpStatus(r) <= 299

\* fromText 72-76 / suggest 116-120 / loadData 201-207 and toRF up to await
\* elk.layout: the fetch has resolved
ClientOnResponse ==
    /\ cl.pc = "fetch"
    /\ req.from = "page"
    /\ req.phase \in {"responded", "escaped"}
    /\ req' = NoReq
    /\ IF ~ResponseOk(req)
       THEN /\ cl' = Idle("httpError", cl.op, cl.g, cl.snap)
            /\ alerted' = FailureAlert(cl.op)
            /\ busy' = FALSE
       ELSE IF ParseThrows(req.body)
       THEN /\ cl' = Idle("badBody", cl.op, cl.g, cl.snap)
            /\ alerted' = FailureAlert(cl.op)
            /\ busy' = FALSE
       ELSE IF SkipsToRF(cl.op, req.body.v)
       THEN /\ cl' = Idle("loaded", cl.op, cl.g, cl.snap)
            /\ busy' = FALSE
            /\ UNCHANGED alerted
       ELSE IF LayoutTypeError(ToRFArgument(cl.op, req.body.v))
       THEN /\ cl' = Idle("typeError", cl.op, ToRFArgument(cl.op, req.body.v), cl.snap)
            /\ alerted' = FailureAlert(cl.op)
            /\ busy' = FALSE
       ELSE /\ cl' = [cl EXCEPT !.pc = "elk", !.g = ToRFArgument(cl.op, req.body.v)]
            /\ UNCHANGED <<alerted, busy>>
    /\ UNCHANGED <<rfNodes, rfEdges, nOps, nEdits, validatorVars, layoutVars, concVars, uiVars, storeVars>>

\* layout 23-28, toRF 48-62 and the finally block: elk has answered
ClientOnLayout ==
    /\ cl.pc = "elk"
    /\ \E o \in ElkOutcomes(ElkGraph(cl.g)) :
          LET r == LayoutResult(o) IN
          IF r.threw
          THEN \* await layout(g) rejects: toRF is left before setNodes/setEdges
               /\ cl' = [Idle("layoutThrew", cl.op, cl.g, cl.snap) EXCEPT !.elk = o]
               /\ alerted' = FailureAlert(cl.op)
               /\ UNCHANGED <<rfNodes, rfEdges>>
          ELSE /\ cl' = [Idle("rendered", cl.op, cl.g, cl.snap) EXCEPT !.elk = o]
               /\ rfNodes' = SetNodes(rfNodes, cl.g, r.pos)
               /\ rfEdges' = SetEdges(rfEdges, cl.g)
               /\ UNCHANGED alerted
    /\ busy' = FALSE
    /\ UNCHANGED <<req, nOps, nEdits, validatorVars, layoutVars, concVars, uiVars, storeVars>>

\* onNodesChange: the user drags node i
DragNode ==
    /\ nEdits < MaxEdits
    /\ \E i \in DOMAIN rfNodes :
          /\ rfNodes[i].position # [x |-> 5, y |-> 5]
          /\ rfNodes' = [rfNodes EXCEPT ![i].position = [x |-> 5, y |-> 5]]
    /\ nEdits' = nEdits + 1
    /\ UNCHANGED <<rfEdges, busy, alerted, cl, req, nOps, validatorVars, layoutVars, concVars, uiVars, storeVars>>

\* reactflow's addEdge: the id it gives a connection without handles
ConnectionId(s, t) == "reactflow__edge-" \o s \o "-" \o t

\* onConnect 129: addEdge({ ...c, animated: true }, eds) appends the edge
\* unless one with the same source and target exists
OnConnect ==
    /\ nEdits < MaxEdits
    /\ \E i, j \in DOMAIN rfNodes :
          LET s == rfNodes[i].id
              t == rfNodes[j].id
          IN  /\ ~\E k \in DOMAIN rfEdges : rfEdges[k].source = s /\ rfEdges[k].target = t
              /\ rfEdges' = Append(rfEdges, [id |-> ConnectionId(s, t), source |-> s,
                                             target |-> t, label |-> Undef, animated |-> TRUE])
    /\ nEdits' = nEdits + 1
    /\ UNCHANGED <<rfNodes, busy, alerted, cl, req, nOps, validatorVars, layoutVars, concVars, uiVars, storeVars>>

\* the page after mount: useNodesState([]), useEdgesState([]), useState(false)
PageIdle ==
    /\ rfNodes = <<>>
    /\ rfEdges = <<>>
    /\ busy = FALSE
    /\ alerted = "none"
    /\ cl = Idle("none", "none", EmptyObj, EmptyObj)
    /\ req = NoReq
    /\ nOps = 0
    /\ nEdits = 0

Init ==
    /\ PageIdle
    /\ candidate = EmptyObj
    /\ parsed = NotParsed
    /\ lgraph = EmptyObj
    /\ lout = [pc |-> "unused", threw |-> FALSE, pos |-> NoPos]
    /\ reqs = NoReqs
    /\ ui = NoUi
    /\ store = NoStore

Next ==
    \/ FromTextStart
    \/ SuggestStart
    \/ LoadStart
    \/ ServerHandle
    \/ ModelAnswer
    \/ LoadAnswer
    \/ ClientOnResponse
    \/ ClientOnLayout
    \/ DragNode
    \/ OnConnect

Spec == Init /\ [][Next]_vars

(***************************************************************************)
(* Direct callers of the API: any task, any input of the bounded sets.     *)
(***************************************************************************)
ApiInputs(ep) ==
    CASE ep = "suggest" -> {Input(LongText, Undef, g, FALSE, NoStack) : g \in ModelObjs}
      [] ep = "fromText" ->
            {Input(LongText, t, EmptyObj, FALSE, NoStack) :
                t \in {Undef, "system", "user-flow", "User-Flow"}}
      [] ep = "stack" -> {Input(t, Undef, EmptyObj, FALSE, NoStack) : t \in {Undef, ShortText, LongText}}
      [] ep = "plan" ->
            {Input(t, Undef, EmptyObj, FALSE, st) :
                t \in {ShortText, LongText},
                st \in {NoStack, Stack("web", "anchor"), Stack("web", "rails")}}
      [] ep = "docs" ->
            \* { prompt } as the main page sends it, { plan } as the Stack Builder does
            {Input(t, Undef, EmptyObj, FALSE, NoStack) : t \in {Undef, "", LongText}}
            \cup {Input(Undef, Undef, EmptyObj, TRUE, NoStack)}
      [] ep = "docsPlan" -> {Input(Undef, Undef, EmptyObj, TRUE, NoStack)}
      [] OTHER -> {Input(Undef, Undef, EmptyObj, b, NoStack) : b \in BOOLEAN}

ApiRequest ==
    /\ req.phase = "none"
    /\ nOps < MaxOps
    /\ \E ep \in Tasks : \E in \in ApiInputs(ep) : req' = NewReq(ep, "api", in)
    /\ nOps' = nOps + 1
    /\ UNCHANGED <<rfNodes, rfEdges, busy, alerted, cl, nEdits, validatorVars, layoutVars, concVars, uiVars, storeVars>>

\* the caller has read the response (or seen the failure)
ApiDone ==
    /\ req.from = "api"
    /\ req.phase \in {"responded", "escaped"}
    /\ req' = NoReq
    /\ UNCHANGED <<rfNodes, rfEdges, busy, alerted, cl, nOps, nEdits, validatorVars, layoutVars, concVars, uiVars, storeVars>>

InitApi ==
    /\ PageIdle
    /\ candidate = EmptyObj
    /\ parsed = NotParsed
    /\ lgraph = EmptyObj
    /\ lout = [pc |-> "unused", threw |-> FALSE, pos |-> NoPos]
    /\ reqs = NoReqs
    /\ ui = NoUi
    /\ store = NoStore

NextApi == ApiRequest \/ ServerHandle \/ ModelAnswer \/ ApiDone

SpecApi == InitApi /\ [][NextApi]_vars

(***************************************************************************)
(* Validator development: safeParse applied to every bounded candidate.    *)
(***************************************************************************)
InitValidate ==
    /\ PageIdle
    /\ candidate \in Candidates \cup KindCandidates \cup MalformedCandidates
    /\ parsed = NotParsed
    /\ lgraph = EmptyObj
    /\ lout = [pc |-> "unused", threw |-> FALSE, pos |-> NoPos]
    /\ reqs = NoReqs
    /\ ui = NoUi
    /\ store = NoStore

Validate ==
    /\ parsed = NotParsed
    /\ parsed' = SafeParseGraph(candidate)
    /\ UNCHANGED <<candidate, pageVars, layoutVars, concVars, uiVars, storeVars>>

NextValidate == Validate

SpecValidate == InitValidate /\ [][NextValidate]_vars

Validated == parsed # NotParsed

NoEmptyField(g) ==
    /\ \A i \in DOMAIN g.nodes : g.nodes[i].id # "" /\ g.nodes[i].label # ""
    /\ \A i \in DOMAIN g.edges :
          g.edges[i].id # "" /\ g.edges[i].source # "" /\ g.edges[i].target # ""

FieldsPresent(g) ==
    /\ g.hasNodes /\ g.hasEdges
    /\ \A i \in DOMAIN g.nodes : g.nodes[i].id # Undef /\ g.nodes[i].label # Undef
    /\ \A i \in DOMAIN g.edges :
          g.edges[i].id # Undef /\ g.edges[i].source # Undef /\ g.edges[i].target # Undef

NodeIds(g) == {g.nodes[j].id : j \in DOMAIN g.nodes}

DanglingEdge(g) ==
    \E i \in DOMAIN g.edges :
        g.edges[i].source \notin NodeIds(g) \/ g.edges[i].target \notin NodeIds(g)

DuplicateNodeId(g) == \E i, j \in DOMAIN g.nodes : i # j /\ g.nodes[i].id = g.nodes[j].id

\* every node and every edge passes its own field checks: the required
\* strings are present and not empty, the kind is absent or declared
ElementsPass(g) ==
    /\ g.typeof = "object"
    /\ FieldsPresent(g)
    /\ NoEmptyField(g)
    /\ \A i \in DOMAIN g.nodes : g.nodes[i].kind \in Kinds \cup {Undef}

\* C12: a candidate whose nodes and edges each pass their own field checks
\* is accepted, also when an edge names a node that does not exist and when
\* two nodes share one id.
C12_ElementWise ==
    (Validated /\ ElementsPass(candidate)) => parsed.success

\* a graph of two nodes with the same id and an edge to a node that does not
\* exist has been accepted
C12_Witness ==
    /\ Validated
    /\ ElementsPass(candidate)
    /\ DuplicateNodeId(candidate)
    /\ DanglingEdge(candidate)
    /\ parsed.success

DeclaredKinds(g) == \A i \in DOMAIN g.nodes : g.nodes[i].kind \in {Undef, "service", "db", "queue", "page", "step"}

\* C13: a graph that is otherwise in order is accepted exactly when every
\* node's kind is absent or one of service, db, queue, page, step; one node
\* with any other kind has the whole graph rejected, with the issue under
\* nodes.
C13_KindClosedEnum ==
    Validated =>
        /\ (candidate.typeof = "object" /\ candidate.hasNodes /\ ~DeclaredKinds(candidate))
              => (~parsed.success /\ "nodes" \in parsed.details)
        /\ (/\ candidate.typeof = "object"
            /\ FieldsPresent(candidate)
            /\ NoEmptyField(candidate))
              => (parsed.success <=> DeclaredKinds(candidate))

\* a graph of a node of kind queue and a node of kind cache has been rejected
C13_Witness ==
    /\ Validated
    /\ candidate.hasNodes /\ Len(candidate.nodes) = 2
    /\ candidate.nodes[1] = Node("a", "A", "queue")
    /\ candidate.nodes[2] = Node("a", "A", "cache")
    /\ ~parsed.success

\* C14: the step that validates a candidate, whatever the candidate is, ends
\* in a result that says success or failure and has not thrown, and changes
\* neither the candidate nor any other state.
C14_ValidatorTotal ==
    [][(parsed = NotParsed /\ parsed' # NotParsed) =>
          /\ ~parsed'.threw
          /\ parsed'.success \in BOOLEAN
          /\ parsed'.success <=> parsed'.details = {}
          /\ candidate' = candidate
          /\ pageVars' = pageVars /\ layoutVars' = layoutVars /\ concVars' = concVars
          /\ uiVars' = uiVars
          /\ storeVars' = storeVars]_vars

\* null has been validated: the result is a failure, not an exception
C14_Witness ==
    /\ Validated
    /\ candidate = NonObject("null")
    /\ ~parsed.success
    /\ ~parsed.threw
    /\ parsed.details = {"formErrors"}

(***************************************************************************)
(* StackConfig development: StackConfigSchema.safeParse applied to every   *)
(* candidate of a set that crosses each key's declared values with an      *)
(* absent and an undeclared one.                                           *)
(***************************************************************************)
Databases == {"postgres", "mysql", "sqlite", "mongodb"}

AuthSolutions == {"clerk", "nextauth", "supabase-auth"}

Stylings == {"tailwind", "styled-components", "emotion"}

StackConfig(t, f, hf, fs, db, au, st) ==
    [type |-> t, framework |-> f, hasFeatures |-> hf, features |-> fs,
     database |-> db, auth |-> au, styling |-> st]

StackCandidates ==
    {StackConfig(t, f, hf, IF hf THEN fs ELSE <<>>, db, au, st) :
        t \in StackTypes \cup {Undef, "desktop"},
        f \in Frameworks \cup {Undef, "rails"},
        hf \in BOOLEAN, fs \in {<<>>, <<"auth">>},
        db \in {Undef, "postgres", "oracle"},
        au \in {Undef, "clerk", "oauth"},
        st \in {Undef, "tailwind", "css"}}

\* a schema that refines the object: the smart-contract frameworks go with
\* type blockchain only
StackConfigIssuesPaired(c) ==
    (IF c.type \notin StackTypes THEN {"type"} ELSE {})
    \cup (IF c.framework \notin Frameworks
             \/ (c.framework \in {"hardhat", "anchor"} /\ c.type # "blockchain")
          THEN {"framework"} ELSE {})
    \cup (IF c.database \notin Databases \cup {Undef} THEN {"database"} ELSE {})
    \cup (IF c.auth \notin AuthSolutions \cup {Undef} THEN {"auth"} ELSE {})
    \cup (IF c.styling \notin Stylings \cup {Undef} THEN {"styling"} ELSE {})

\* the keys of StackConfigSchema that carry an issue: each key is checked by
\* its own schema; features (an array of strings here) has a default
StackConfigIssues(c) ==
    (IF c.type \notin StackTypes THEN {"type"} ELSE {})
    \cup (IF c.framework \notin Frameworks THEN {"framework"} ELSE {})
    \cup (IF c.database \notin Databases \cup {Undef} THEN {"database"} ELSE {})
    \cup (IF c.auth \notin AuthSolutions \cup {Undef} THEN {"auth"} ELSE {})
    \cup (IF c.styling \notin Stylings \cup {Undef} THEN {"styling"} ELSE {})

\* z.array(z.string()).default([]): the parsed value of features
FeaturesDefault(c) == IF c.hasFeatures THEN c.features ELSE <<>>

\* StackConfigSchema.safeParse(c): on success data is the candidate with
\* features defaulted
SafeParseStackConfig(c) ==
    [success |-> StackConfigIssues(c) = {}, details |-> StackConfigIssues(c), threw |-> FALSE,
     data |-> [c EXCEPT !.hasFeatures = TRUE, !.features = FeaturesDefault(c)]]

InitStackConfig ==
    /\ PageIdle
    /\ candidate \in StackCandidates
    /\ parsed = NotParsed
    /\ lgraph = EmptyObj
    /\ lout = [pc |-> "unused", threw |-> FALSE, pos |-> NoPos]
    /\ reqs = NoReqs
    /\ ui = NoUi
    /\ store = NoStore

ValidateStackConfig ==
    /\ parsed = NotParsed
    /\ parsed' = SafeParseStackConfig(candidate)
    /\ UNCHANGED <<candidate, pageVars, layoutVars, concVars, uiVars, storeVars>>

NextStackConfig == ValidateStackConfig

SpecStackConfig == InitStackConfig /\ [][NextStackConfig]_vars

OptionalKeysOk(c) ==
    /\ c.database \in {Undef, "postgres", "mysql", "sqlite", "mongodb"}
    /\ c.auth \in {Undef, "clerk", "nextauth", "supabase-auth"}
    /\ c.styling \in {Undef, "tailwind", "styled-components", "emotion"}

TypeDeclared(c) == c.type \in {"web", "mobile", "backend", "blockchain", "ai"}

FrameworkDeclared(c) ==
    c.framework \in {"nextjs", "react", "vue", "svelte", "solid", "flutter", "react-native",
                     "fastapi", "hono", "express", "hardhat", "anchor", "langchain"}

\* C20: a StackConfig whose optional keys are in order is accepted exactly
\* when its type is a declared type and its framework a declared framework,
\* whatever the pairing; an accepted config without a features list comes
\* out with features = [], one with a list keeps it; a type or a framework
\* outside its enumeration is rejected.
C20_StackConfigIndependentEnums ==
    Validated =>
        /\ OptionalKeysOk(candidate) =>
              (parsed.success <=> (TypeDeclared(candidate) /\ FrameworkDeclared(candidate)))
        /\ (~TypeDeclared(candidate) \/ ~FrameworkDeclared(candidate)) => ~parsed.success
        /\ parsed.success =>
              /\ parsed.data.hasFeatures
              /\ parsed.data.features = IF candidate.hasFeatures THEN candidate.features ELSE <<>>

\* { type: "web", framework: "anchor" } without features has been accepted
\* and came out with an empty features list
C20_Witness ==
    /\ Validated
    /\ candidate = StackConfig("web", "anchor", FALSE, <<>>, Undef, Undef, Undef)
    /\ parsed.success
    /\ parsed.data.features = <<>>

(***************************************************************************)
(* ProjectPlan development: ProjectPlanSchema.safeParse applied to plans   *)
(* assembled from in-order and out-of-order parts.                         *)
(***************************************************************************)
\* z.string(): Undef stands for a key that is absent or holds no string
IsString(v) == v # Undef

UserStory(i, pr, es, hasAc, hasAs) ==
    [id |-> i, title |-> "t", description |-> "d",
     hasAcceptanceCriteria |-> hasAc, acceptanceCriteria |-> IF hasAc THEN <<"x">> ELSE <<>>,
     priority |-> pr, estimate |-> es, hasAssignees |-> hasAs, assignees |-> <<>>]

FileNode(n, t, c, hc, ch) ==
    [name |-> n, type |-> t, content |-> c, hasChildren |-> hc, children |-> ch]

FileLeaves ==
    {FileNode(n, t, c, FALSE, <<>>) :
        n \in {Undef, "index.ts"}, t \in {"file", "directory", "link"}, c \in {Undef, ""}}

\* file trees of depth at most d: a leaf, or a node over at most one tree
RECURSIVE FileTrees(_)
FileTrees(d) ==
    IF d <= 1 THEN FileLeaves
    ELSE FileLeaves
         \cup {FileNode("src", t, c, TRUE, ch) :
                 t \in {"file", "directory"}, c \in {Undef, ""},
                 ch \in SeqsUpTo(FileTrees(d - 1), 1)}

ProjectPlan(ti, de, st, ar, hs, us, hf, fs) ==
    [title |-> ti, description |-> de, stack |-> st, architecture |-> ar,
     hasUserStories |-> hs, userStories |-> us, hasFileStructure |-> hf, fileStructure |-> fs]

PlanStacks ==
    {StackConfig("web", "nextjs", TRUE, <<>>, Undef, Undef, Undef),
     StackConfig("web", "anchor", FALSE, <<>>, Undef, Undef, Undef),
     StackConfig("web", "rails", TRUE, <<>>, Undef, Undef, Undef),
     StackConfig(Undef, Undef, FALSE, <<>>, Undef, Undef, Undef)}

PlanGraphs ==
    {Graph(<<Node("a", "A", Undef)>>, <<>>),
     Graph(<<Node("a", "A", Undef)>>, <<Edge("e1", "a", "z", Undef)>>),
     Graph(<<Node("a", "", Undef)>>, <<>>)}

PlanStories ==
    {UserStory("1", pr, es, TRUE, TRUE) : pr \in {"High", "Urgent"}, es \in {"S", "C", "L"}}
    \cup {UserStory("1", "Low", "M", TRUE, FALSE), UserStory("1", "Low", "M", FALSE, TRUE),
          UserStory(Undef, "Medium", "M", TRUE, TRUE)}

PlanCandidates ==
    {ProjectPlan(ti, "Desc", st, ar, hs, IF hs THEN us ELSE <<>>, hf, IF hf THEN fs ELSE <<>>) :
        ti \in {Undef, "Test"}, st \in PlanStacks, ar \in PlanGraphs,
        hs \in BOOLEAN, us \in SeqsUpTo(PlanStories, 1),
        hf \in BOOLEAN, fs \in SeqsUpTo(FileTrees(MaxDepth), 1)}

\* UserStorySchema
UserStorySchema(u) ==
    /\ IsString(u.id) /\ IsString(u.title) /\ IsString(u.description)
    /\ u.priority \in {"High", "Medium", "Low"}
    /\ u.estimate \in {"S", "M", "C"}
    /\ u.hasAcceptanceCriteria
    /\ u.hasAssignees

\* a file-node schema whose children are z.array(z.any())
FileNodeSchemaShallow(n) == IsString(n.name) /\ n.type \in {"file", "directory"}

\* FileNodeSchema: z.lazy, the children are file nodes again; content and
\* children are each optional whatever the type
RECURSIVE FileNodeSchema(_)
FileNodeSchema(n) ==
    /\ IsString(n.name)
    /\ n.type \in {"file", "directory"}
    /\ \A i \in DOMAIN n.children : FileNodeSchema(n.children[i])

\* the keys of ProjectPlanSchema that carry an issue
ProjectPlanIssues(c) ==
    (IF ~IsString(c.title) THEN {"title"} ELSE {})
    \cup (IF ~IsString(c.description) THEN {"description"} ELSE {})
    \cup (IF ~SafeParseStackConfig(c.stack).success THEN {"stack"} ELSE {})
    \cup (IF ~SafeParseGraph(c.architecture).success THEN {"architecture"} ELSE {})
    \cup (IF ~c.hasUserStories \/ \E i \in DOMAIN c.userStories : ~UserStorySchema(c.userStories[i])
          THEN {"userStories"} ELSE {})
    \cup (IF ~c.hasFileStructure \/ \E i \in DOMAIN c.fileStructure : ~FileNodeSchema(c.fileStructure[i])
          THEN {"fileStructure"} ELSE {})

\* ProjectPlanSchema.safeParse(c)
SafeParseProjectPlan(c) ==
    [success |-> ProjectPlanIssues(c) = {}, details |-> ProjectPlanIssues(c), threw |-> FALSE]

InitProjectPlan ==
    /\ PageIdle
    /\ candidate \in PlanCandidates
    /\ parsed = NotParsed
    /\ lgraph = EmptyObj
    /\ lout = [pc |-> "unused", threw |-> FALSE, pos |-> NoPos]
    /\ reqs = NoReqs
    /\ ui = NoUi
    /\ store = NoStore

ValidateProjectPlan ==
    /\ parsed = NotParsed
    /\ parsed' = SafeParseProjectPlan(candidate)
    /\ UNCHANGED <<candidate, pageVars, layoutVars, concVars, uiVars, storeVars>>

NextProjectPlan == ValidateProjectPlan

SpecProjectPlan == InitProjectPlan /\ [][NextProjectPlan]_vars

\* every file node of the tree under n, n included, has a name and a
\* declared type
RECURSIVE NamedAndTyped(_)
NamedAndTyped(n) ==
    /\ n.name # Undef
    /\ n.type \in {"file", "directory"}
    /\ \A i \in DOMAIN n.children : NamedAndTyped(n.children[i])

\* the conditions the claim lists
PlanAsClaimed(c) ==
    /\ c.title # Undef /\ c.description # Undef
    /\ SafeParseStackConfig(c.stack).success
    /\ SafeParseGraph(c.architecture).success
    /\ \A i \in DOMAIN c.userStories :
          /\ c.userStories[i].priority \in {"High", "Medium", "Low"}
          /\ c.userStories[i].estimate \in {"S", "M", "C"}
    /\ \A i \in DOMAIN c.fileStructure : NamedAndTyped(c.fileStructure[i])

\* the other keys of a user story are in place
StoryKeysPresent(c) ==
    \A i \in DOMAIN c.userStories :
        /\ c.userStories[i].id # Undef /\ c.userStories[i].title # Undef
        /\ c.userStories[i].description # Undef
        /\ c.userStories[i].hasAcceptanceCriteria
        /\ c.userStories[i].hasAssignees

\* a file with children or a directory with content, somewhere in the tree
RECURSIVE Mispaired(_)
Mispaired(n) ==
    \/ n.type = "file" /\ n.hasChildren
    \/ n.type = "directory" /\ n.content # Undef
    \/ \E i \in DOMAIN n.children : Mispaired(n.children[i])

LayoutNodes == {Node(i, "A", k) : i \in {"a", "b"}, k \in {Undef, "db"}}

LayoutEdges == {Edge("e1", "a", t, Undef) : t \in {"b", "z"}}

LayoutGraphs ==
    {Graph(ns, es) : ns \in SeqsUpTo(LayoutNodes, MaxNodes), es \in SeqsUpTo(LayoutEdges, MaxEdges)}

InitLayout ==
    /\ PageIdle
    /\ candidate = EmptyObj
    /\ parsed = NotParsed
    /\ lgraph \in LayoutGraphs
    /\ lout = [pc |-> "start", threw |-> FALSE, pos |-> NoPos]
    /\ reqs = NoReqs
    /\ ui = NoUi
    /\ store = NoStore

\* layout.ts 6-23: the synchronous part of layout(), up to await elk.layout(g)
LayoutCall ==
    /\ lout.pc = "start"
    /\ lout' = IF LayoutTypeError(lgraph)
               THEN [pc |-> "done", threw |-> TRUE, pos |-> NoPos]
               ELSE [pc |-> "elk", threw |-> FALSE, pos |-> NoPos]
    /\ UNCHANGED <<lgraph, pageVars, validatorVars, concVars, uiVars, storeVars>>

\* layout.ts 23-28: elk answers and layout() settles
LayoutElkAnswer ==
    /\ lout.pc = "elk"
    /\ \E o \in ElkOutcomes(ElkGraph(lgraph)) :
          lout' = [pc |-> "done", threw |-> LayoutResult(o).threw, pos |-> LayoutResult(o).pos]
    /\ UNCHANGED <<lgraph, pageVars, validatorVars, concVars, uiVars, storeVars>>

NextLayout == LayoutCall \/ LayoutElkAnswer

SpecLayout == InitLayout /\ [][NextLayout]_vars

\* every graph of the layout development is one the validator accepts
LayoutInputsValid == SafeParseGraph(lgraph).success

\* C4 as stated: whenever layout(g) returns a position map, the map has
\* exactly as many keys as g has nodes.
C4_KeysEqualNodeCount ==
    (lout.pc = "done" /\ ~lout.threw) => Cardinality(DOMAIN lout.pos) = Len(lgraph.nodes)

\* C5 as stated: layout(g) never throws and returns a position for every node
\* of g, whatever structurally valid graph g is.
C5_LayoutTotal ==
    lout.pc = "done" =>
        /\ ~lout.threw
        /\ \A i \in DOMAIN lgraph.nodes : lgraph.nodes[i].id \in DOMAIN lout.pos

(***************************************************************************)
(* Concurrent development: several handler invocations run together on the *)
(* one server process.  Everything a handler touches is a local of its own *)
(* invocation (body, parsed, res); the only module-level binding is the    *)
(* OpenAI client, which no handler writes.                                 *)
(***************************************************************************)
ConcInputs(ep) ==
    CASE ep = "suggest" ->
            {Input(LongText, Undef, g, FALSE, NoStack) :
                g \in {Graph(<<Node("a", "A", Undef)>>, <<>>), Graph(<<Node("a", "", "cache")>>, <<>>)}}
      [] ep = "fromText" -> {Input(LongText, t, EmptyObj, FALSE, NoStack) : t \in {Undef, "user-flow"}}
      [] ep = "stack" -> {Input(t, Undef, EmptyObj, FALSE, NoStack) : t \in {ShortText, LongText}}
      [] ep = "plan" -> {Input(LongText, Undef, EmptyObj, FALSE, st) : st \in {NoStack, Stack("web", "rails")}}
      [] ep = "docs" -> {Input(t, Undef, EmptyObj, FALSE, NoStack) : t \in {Undef, LongText}}
      [] ep = "docsPlan" -> {Input(Undef, Undef, EmptyObj, TRUE, NoStack)}
      [] OTHER -> {Input(Undef, Undef, EmptyObj, b, NoStack) : b \in BOOLEAN}

ConcAnswers ==
    {[threw |-> TRUE, exc |-> "timeout", content |-> NullText]}
    \cup {[threw |-> FALSE, exc |-> "none", content |-> t] :
            t \in {NullText, RawText, JsonText(Graph(<<Node("a", "A", Undef)>>, <<>>))}}

\* a server that stops serving once a model call has failed: every
\* invocation waiting for the model is failed with it
SettleInTripping(rs, i, a) ==
    IF a.threw
    THEN [j \in DOMAIN rs |->
             IF j = i THEN OnModelAnswer(rs[i], a)
             ELSE IF rs[j].phase = "calling" THEN Escape(rs[j])
             ELSE rs[j]]
    ELSE [rs EXCEPT ![i] = OnModelAnswer(rs[i], a)]

\* invocation i enters its handler: what it reads and writes is its own
HandleIn(rs, i) == [rs EXCEPT ![i] = Handle(rs[i])]

\* invocation i's model call settles with a
SettleIn(rs, i, a) == [rs EXCEPT ![i] = OnModelAnswer(rs[i], a)]

ConcReceive ==
    /\ \E i \in DOMAIN reqs :
          /\ reqs[i].phase = "none"
          /\ \E ep \in Tasks : \E in \in ConcInputs(ep) :
                reqs' = [reqs EXCEPT ![i] = NewReq(ep, "api", in)]
    /\ UNCHANGED <<pageVars, validatorVars, layoutVars, uiVars, storeVars>>

ConcHandle ==
    /\ \E i \in DOMAIN reqs :
          /\ reqs[i].phase = "received"
          /\ reqs' = HandleIn(reqs, i)
    /\ UNCHANGED <<pageVars, validatorVars, layoutVars, uiVars, storeVars>>

ConcModelAnswer ==
    /\ \E i \in DOMAIN reqs :
          /\ reqs[i].phase = "calling"
          /\ \E a \in ConcAnswers : reqs' = SettleIn(reqs, i, a)
    /\ UNCHANGED <<pageVars, validatorVars, layoutVars, uiVars, storeVars>>

InitConc ==
    /\ PageIdle
    /\ candidate = EmptyObj
    /\ parsed = NotParsed
    /\ lgraph = EmptyObj
    /\ lout = [pc |-> "unused", threw |-> FALSE, pos |-> NoPos]
    /\ reqs = NoReqs
    /\ ui = NoUi
    /\ store = NoStore

NextConc == ConcReceive \/ ConcHandle \/ ConcModelAnswer

SpecConc == InitConc /\ [][NextConc]_vars

\* the model answer an ended invocation recorded
AnswerOf(r) ==
    IF r.exc # "none" THEN [threw |-> TRUE, exc |-> r.exc, content |-> NullText]
    ELSE [threw |-> FALSE, exc |-> "none", content |-> r.answer]

\* the invocation that the same input and the same model answer end in when
\* nothing else runs
Alone(r) ==
    LET h == Handle(NewReq(r.ep, r.from, r.input))
    IN  IF h.phase = "calling" THEN OnModelAnswer(h, AnswerOf(r)) ELSE h

Ended(r) == r.phase \in {"responded", "escaped"}

GenerationOps == {"fromText", "suggest", "generateDoc", "saveData", "loadData"}

ButtonOps == GenerationOps \cup {"exportPng", "exportPdf"}

\* page.tsx 235-250: the disabled attribute of each button
ButtonEnabled(op, b, doc) ==
    CASE op = "exportPng" -> TRUE
      [] op = "exportPdf" -> ~(b \/ ~doc)
      [] OTHER -> ~b

\* the first await of the handler
FirstAwait(op) == IF op = "exportPng" THEN "toPng" ELSE "fetch"

\* how the first await can settle: the promise rejects or the response is
\* not ok ("threw"), the body is no graph and toRF throws before elk is
\* asked ("badBody"), toRF awaits elk ("toLayout"), or the try block ends
AwaitOutcomes(op) ==
    CASE op \in {"fromText", "suggest"} -> {"threw", "badBody", "toLayout"}
      [] op = "loadData" -> {"threw", "badBody", "toLayout", "ok"}
      [] OTHER -> {"threw", "ok"}

\* the alert of each handler's catch block
CatchAlert(op) ==
    CASE op = "fromText" -> "Failed to generate diagram. Please check the console for details."
      [] op = "suggest" -> "Failed to suggest improvements. Please check the console for details."
      [] op = "generateDoc" -> "Failed to generate document. Please check the console for details."
      [] op = "exportPng" -> "Failed to export PNG. Please check the console for details."
      [] op = "exportPdf" -> "Failed to export PDF. Please check the console for details."
      [] op = "saveData" -> "Failed to save data. Please check the console for details."
      [] OTHER -> "Failed to load data. Please check the console for details."

\* a handler whose setBusy(false) is the last statement of the try block
SetBusyAtEndOfTry(outcome) == outcome # "ok"

\* finally { setBusy(false) }: the value of busy when the handler is left
SetBusyAtEnd(outcome) == FALSE

RemoveAt(seq, i) == [j \in 1..(Len(seq) - 1) |-> IF j < i THEN seq[j] ELSE seq[j + 1]]

\* the handler of ui.ops[i] is left with outcome; doc is what it stored in docJson
Leave(i, outcome, doc) ==
    /\ ui' = [ops |-> RemoveAt(ui.ops, i), docJson |-> doc,
              last |-> [op |-> ui.ops[i].op, outcome |-> outcome]]
    /\ busy' = SetBusyAtEnd(outcome)
    /\ alerted' = IF outcome = "ok"
                  THEN (IF ui.ops[i].op = "saveData" THEN "Saved successfully with ID" ELSE alerted)
                  ELSE CatchAlert(ui.ops[i].op)

\* a button is pressed: setBusy(true) and the handler runs to its first await
ButtonPress ==
    /\ nOps < MaxOps
    /\ \E op \in ButtonOps :
          /\ ButtonEnabled(op, busy, ui.docJson)
          /\ ui' = [ui EXCEPT !.ops = Append(@, [op |-> op, pc |-> FirstAwait(op)])]
    /\ busy' = TRUE
    /\ nOps' = nOps + 1
    /\ UNCHANGED <<rfNodes, rfEdges, alerted, cl, req, nEdits, validatorVars, layoutVars, concVars, storeVars>>

\* the first await of a handler settles
AwaitSettles ==
    /\ \E i \in DOMAIN ui.ops :
          /\ ui.ops[i].pc \in {"fetch", "toPng"}
          /\ \E outcome \in AwaitOutcomes(ui.ops[i].op) :
                IF outcome = "toLayout"
                THEN /\ ui' = [ui EXCEPT !.ops[i].pc = "layout"]
                     /\ UNCHANGED <<busy, alerted>>
                ELSE \E d \in BOOLEAN :
                        Leave(i, outcome,
                              CASE outcome = "ok" /\ ui.ops[i].op = "generateDoc" -> d
                                [] outcome = "ok" /\ ui.ops[i].op = "loadData" -> (ui.docJson \/ d)
                                [] OTHER -> ui.docJson)
    /\ UNCHANGED <<rfNodes, rfEdges, cl, req, nOps, nEdits, validatorVars, layoutVars, concVars, storeVars>>

\* await layout(g) inside toRF settles: elk has answered or thrown
LayoutSettles ==
    /\ \E i \in DOMAIN ui.ops :
          /\ ui.ops[i].pc = "layout"
          /\ \E outcome \in {"ok", "layoutThrew"} : \E d \in BOOLEAN :
                Leave(i, outcome,
                      IF outcome = "ok" /\ ui.ops[i].op = "loadData" THEN (ui.docJson \/ d)
                      ELSE ui.docJson)
    /\ UNCHANGED <<rfNodes, rfEdges, cl, req, nOps, nEdits, validatorVars, layoutVars, concVars, storeVars>>

InitBusy ==
    /\ PageIdle
    /\ candidate = EmptyObj
    /\ parsed = NotParsed
    /\ lgraph = EmptyObj
    /\ lout = [pc |-> "unused", threw |-> FALSE, pos |-> NoPos]
    /\ reqs = NoReqs
    /\ ui = NoUi
    /\ store = NoStore

NextBusy == ButtonPress \/ AwaitSettles \/ LayoutSettles

SpecBusy == InitBusy /\ [][NextBusy]_vars

\* every await settles in the end: the server answers, elk and toPng return
FairSpecBusy == SpecBusy /\ WF_vars(AwaitSettles) /\ WF_vars(LayoutSettles)

GenerationsInFlight == {i \in DOMAIN ui.ops : ui.ops[i].op \in GenerationOps}

\* C22 as stated: at most one generation-type operation is in flight, and
\* while one is in flight busy stays true, so that its buttons stay
\* disabled, also when an Export PNG has started and finished meanwhile.
C22_BusyMutualExclusion ==
    /\ Cardinality(GenerationsInFlight) <= 1
    /\ GenerationsInFlight # {} => busy

\* C24: whenever busy is true it becomes false again, given that every
\* await settles; the handler is left with busy false on the success path
\* and on every failure path.
C24_BusyReleased == busy ~> ~busy

\* a load has been left through its catch block after elk threw, and busy
\* is false with nothing in flight
C24_Witness ==
    /\ ui.last = [op |-> "loadData", outcome |-> "layoutThrew"]
    /\ ui.ops = <<>>
    /\ ~busy

(***************************************************************************)
(* Stack Builder page: the selects that build config and generatePlan,     *)
(* which posts { idea, stack: config } to /api/project/plan.  candidate is *)
(* config; parsed is what the endpoint's StackConfigSchema makes of the     *)
(* stack of the request in flight.  The idea is taken to be long enough.   *)
(***************************************************************************)
\* the options of the Framework select for each project type
frameworks(t) ==
    CASE t = "web" -> {"nextjs", "react", "vue", "svelte", "solid"}
      [] t = "mobile" -> {"react-native", "flutter", "ionic"}
      [] t = "backend" -> {"hono", "fastapi", "express", "elysia", "gin"}
      [] t = "blockchain" -> {"hardhat", "anchor", "foundry"}
      [] OTHER -> {"langchain", "autogen", "llamaindex"}

databases == {"postgres", "mysql", "sqlite", "mongodb", "supabase", "planetscale"}

auth == {"clerk", "nextauth", "supabase-auth", "better-auth"}

styling == {"tailwind", "styled-components", "emotion", "chakra"}

\* <option value="">None</option>
None == ""

\* useState<Partial<StackConfig>>({ type: "web", framework: "nextjs" })
InitialConfig == StackConfig("web", "nextjs", FALSE, <<>>, Undef, Undef, Undef)

\* the Project Type select: setConfig({ ...config, type })
SelectType ==
    /\ parsed = NotParsed
    /\ \E t \in StackTypes : candidate' = [candidate EXCEPT !.type = t]
    /\ UNCHANGED <<parsed, pageVars, layoutVars, concVars, uiVars, storeVars>>

\* the Framework select offers frameworks[config.type]
SelectFramework ==
    /\ parsed = NotParsed
    /\ \E f \in frameworks(candidate.type) : candidate' = [candidate EXCEPT !.framework = f]
    /\ UNCHANGED <<parsed, pageVars, layoutVars, concVars, uiVars, storeVars>>

SelectDatabase ==
    /\ parsed = NotParsed
    /\ \E d \in {None} \cup databases : candidate' = [candidate EXCEPT !.database = d]
    /\ UNCHANGED <<parsed, pageVars, layoutVars, concVars, uiVars, storeVars>>

SelectAuth ==
    /\ parsed = NotParsed
    /\ \E a \in {None} \cup auth : candidate' = [candidate EXCEPT !.auth = a]
    /\ UNCHANGED <<parsed, pageVars, layoutVars, concVars, uiVars, storeVars>>

SelectStyling ==
    /\ parsed = NotParsed
    /\ \E st \in {None} \cup styling : candidate' = [candidate EXCEPT !.styling = st]
    /\ UNCHANGED <<parsed, pageVars, layoutVars, concVars, uiVars, storeVars>>

\* generatePlan 61-69 and the endpoint's schema.parse on the stack it sent
GeneratePlan ==
    /\ parsed = NotParsed
    /\ alerted' = "none"
    /\ busy' = TRUE
    /\ parsed' = SafeParseStackConfig(candidate)
    /\ UNCHANGED <<candidate, rfNodes, rfEdges, cl, req, nOps, nEdits, layoutVars, concVars, uiVars, storeVars>>

\* generatePlan 70-77: the response has been read; alerted is the page's error
PlanAnswered ==
    /\ parsed # NotParsed
    /\ parsed' = NotParsed
    /\ alerted' = IF parsed.success THEN "none" ELSE "HTTP 500"
    /\ busy' = FALSE
    /\ UNCHANGED <<candidate, rfNodes, rfEdges, cl, req, nOps, nEdits, layoutVars, concVars, uiVars, storeVars>>

InitBuilder ==
    /\ PageIdle
    /\ candidate = InitialConfig
    /\ parsed = NotParsed
    /\ lgraph = EmptyObj
    /\ lout = [pc |-> "unused", threw |-> FALSE, pos |-> NoPos]
    /\ reqs = NoReqs
    /\ ui = NoUi
    /\ store = NoStore

NextBuilder ==
    \/ SelectType
    \/ SelectFramework
    \/ SelectDatabase
    \/ SelectAuth
    \/ SelectStyling
    \/ GeneratePlan
    \/ PlanAnswered

SpecBuilder == InitBuilder /\ [][NextBuilder]_vars

\* C28 as stated: whatever the selections made on the Stack Builder page,
\* the stack of a plan request it sends passes StackConfig validation.
C28_BuilderConfigValid == parsed # NotParsed => parsed.success

(***************************************************************************)
(* Storage development: POST /api/save and GET /api/load/[id].  A text     *)
(* whose characters matter (an e-mail address, a path segment) is the      *)
(* sequence of its characters; a path is the sequence of its segments      *)
(* below data/.  A file record keeps, next to its content, who wrote it.   *)
(***************************************************************************)
MaxSaves == 2

AlphaNumeric == {"a", "b", "u", "x", "1", "2", "3", "4"}

\* email.replace(/[^a-zA-Z0-9.-]/g, "_")
sanitizeEmail(email) ==
    [i \in DOMAIN email |-> IF email[i] \in AlphaNumeric \cup {".", "-"} THEN email[i] ELSE "_"]

\* the signed-in users
Emails == {<<"a", "+", "b", "@", "x">>, <<"a", "_", "b", "@", "x">>, <<"b", "@", "x">>}

\* getServerSession: no session, or the session of a user
Sessions == {NoSession} \cup Emails

UuidDigits == <<"1", "2", "3", "4">>

\* the ids uuidv4() can give
Uuids == {<<"u", UuidDigits[k]>> : k \in 1..MaxSaves}

DotDot == <<".", ".">>

\* the id of the URL, split at "/": any string is taken
LoadIds ==
    {<<u>> : u \in Uuids}
    \cup {<<DotDot, sanitizeEmail(e), u>> : e \in Emails, u \in Uuids}

\* path.join normalises: a ".." segment removes the segment before it
RECURSIVE Normalize(_)
Normalize(segs) ==
    IF segs = <<>> THEN <<>>
    ELSE LET init == Normalize(SubSeq(segs, 1, Len(segs) - 1))
             last == segs[Len(segs)]
         IN  IF last = DotDot
             THEN (IF init = <<>> THEN <<>> ELSE SubSeq(init, 1, Len(init) - 1))
             ELSE Append(init, last)

\* path.join(process.cwd(), "data", userDir, `${id}.json`), below data/
FilePath(email, id) == Normalize(<<sanitizeEmail(email)>> \o id)

SavedGraphs == {EmptyObj, Graph(<<Node("a", "A", Undef)>>, <<>>)}

SavedDocs == {"", "Ride Share Application Plan"}

Unauthorized(op, session, id) ==
    [NoResponse EXCEPT !.op = op, !.by = session, !.id = id, !.status = 401]

\* POST /api/save: 401 without a session; else the record is written under
\* a fresh id, or the write fails
SavePost ==
    /\ \E session \in Sessions, g \in SavedGraphs, d \in SavedDocs :
          IF session = NoSession
          THEN store' = [store EXCEPT !.last = Unauthorized("save", session, <<>>)]
          ELSE \/ /\ Cardinality(store.files) < MaxSaves
                  /\ \E u \in Uuids :
                        /\ \A f \in store.files : f.id # u
                        /\ store' =
                              [files |-> {f \in store.files : f.path # FilePath(session, <<u>>)}
                                            \cup {[path |-> FilePath(session, <<u>>), id |-> u,
                                                   owner |-> session, graph |-> g, doc |-> d]},
                               last |-> [NoResponse EXCEPT !.op = "save", !.by = session,
                                                           !.id = <<u>>, !.status = 200]]
               \/ store' = [store EXCEPT !.last = [NoResponse EXCEPT !.op = "save",
                                                       !.by = session, !.status = 500]]
    /\ UNCHANGED <<pageVars, validatorVars, layoutVars, concVars, uiVars>>

\* GET /api/load/[id]: 401 without a session; else the file at the joined
\* path is read and returned, 500 when there is none
LoadGet ==
    /\ \E session \in Sessions, id \in LoadIds :
          store' =
             [store EXCEPT !.last =
                 IF session = NoSession THEN Unauthorized("load", session, id)
                 ELSE IF \E f \in store.files : f.path = FilePath(session, id)
                 THEN LET f == CHOOSE f \in store.files : f.path = FilePath(session, id)
                      IN  [op |-> "load", by |-> session, id |-> id, status |-> 200,
                           data |-> [owner |-> f.owner, graph |-> f.graph, doc |-> f.doc]]
                 ELSE [NoResponse EXCEPT !.op = "load", !.by = session, !.id = id,
                                         !.status = 500]]
    /\ UNCHANGED <<pageVars, validatorVars, layoutVars, concVars, uiVars>>

InitStorage ==
    /\ PageIdle
    /\ candidate = EmptyObj
    /\ parsed = NotParsed
    /\ lgraph = EmptyObj
    /\ lout = [pc |-> "unused", threw |-> FALSE, pos |-> NoPos]
    /\ reqs = NoReqs
    /\ ui = NoUi
    /\ store = NoStore

NextStorage == SavePost \/ LoadGet

SpecStorage == InitStorage /\ [][NextStorage]_vars

\* C29 as stated: a save or load without a session is answered 401 and
\* leaves the files as they were; a load answered 200 returns a record that
\* the caller saved, whatever the e-mail addresses and the id; and a load by
\* a user of an id that user saved returns the graph and doc of that save.
C29_SessionsIsolated ==
    [][LET l == store'.last IN
       /\ (store' # store /\ l.by = NoSession) =>
             (l.status = 401 /\ store'.files = store.files)
       /\ (store' # store /\ l.op = "load" /\ l.status = 200) => l.data.owner = l.by
       /\ (store' # store /\ l.op = "load") =>
             \A f \in store.files :
                (f.owner = l.by /\ <<f.id>> = l.id) =>
                    (l.status = 200 /\ l.data.graph = f.graph /\ l.data.doc = f.doc)]_vars

(***************************************************************************)
(* Claims about the route handlers, checked under SpecApi.                 *)
(***************************************************************************)
Settled == req.phase \in {"responded", "escaped"}

\* C1: a graph-suggest request whose graph fails Graph validation never
\* reaches the model: it issues no model call and is answered 400 with an
\* error and field-level details; a model call is issued only after the
\* graph has passed validation.
C1_SuggestShortCircuits ==
    req.ep = "suggest" =>
        /\ ~SafeParseGraph(req.input.graph).success =>
              /\ req.calls = 0
              /\ req.phase \in {"received", "responded"}
              /\ req.phase = "responded" =>
                    /\ req.status = 400
                    /\ req.body.c = "json"
                    /\ req.body.v.error # Undef
                    /\ req.body.v.details # {}
        /\ req.calls > 0 => (req.validated /\ SafeParseGraph(req.input.graph).success)

\* a graph with an empty node label has been answered 400 without a model call
C1_Witness ==
    /\ req.ep = "suggest"
    /\ req.phase = "responded"
    /\ req.status = 400
    /\ req.calls = 0
    /\ req.input.graph.hasNodes /\ req.input.graph.hasEdges
    /\ \E i \in DOMAIN req.input.graph.nodes : req.input.graph.nodes[i].label = ""
    /\ "nodes" \in req.body.v.details

\* C6: no invocation of any task issues more than one model call, whether
\* the call fails, the content is malformed or all goes well.
C6_AtMostOneModelCall == req.calls <= 1

\* an invocation has ended after a failed model call, having called once
C6_Witness ==
    /\ Settled
    /\ req.exc # "none"
    /\ req.calls = 1

C8_GenericServerError ==
    (Settled /\ req.exc # "none" /\ req.ep \in Endpoints) =>
        /\ req.phase = "responded"
        /\ req.status = 500
        /\ req.body.c = "json"
        /\ req.body.v.error # Undef
        /\ \A e \in Exceptions : req.body.v.error # ExcMessage(e)

\* C9: for graph-from-text and for graph-suggest with a valid input graph,
\* the response is the model's content as it is, with success, whether or
\* not the content satisfies the Graph schema.
C9_ModelOutputPassedThrough ==
    (req.ep \in {"fromText", "suggest"} /\ req.phase = "responded" /\ req.calls = 1) =>
        /\ req.status = 200
        /\ req.answer.c # "null" => req.body = req.answer

\* graph-suggest has answered 200 with a model graph that the schema rejects
\* (an empty label and an unknown kind)
C9_Witness ==
    /\ req.ep = "suggest"
    /\ req.phase = "responded"
    /\ req.status = 200
    /\ req.body.c = "json"
    /\ req.body.v.hasNodes
    /\ \E i \in DOMAIN req.body.v.nodes :
          req.body.v.nodes[i].label = "" /\ req.body.v.nodes[i].kind \notin Kinds \cup {Undef}
    /\ ~SafeParseGraph(req.body.v).success

\* C16: graph-from-text calls the model with exactly two messages, system
\* then user; a type of "user-flow" gives the user-flow instruction and
\* "Turn this idea into a user flow graph. <text>", any other type or none
\* gives the system-graph instruction and "Turn this idea into a system
\* graph. <text>"; the model's graph is answered as it is with status 200.
C16_PromptSelectedByType ==
    (req.ep = "fromText" /\ req.calls >= 1) =>
        /\ Len(req.messages) = 2
        /\ req.messages[1].role = "system" /\ req.messages[2].role = "user"
        /\ req.input.type = "user-flow" =>
              /\ req.messages[1].content = USER_FLOW_JSON_INSTRUCTIONS
              /\ req.messages[2].content = "Turn this idea into a user flow graph. " \o req.input.str
        /\ req.input.type # "user-flow" =>
              /\ req.messages[1].content = GRAPH_JSON_INSTRUCTIONS
              /\ req.messages[2].content = "Turn this idea into a system graph. " \o req.input.str
        /\ (req.phase = "responded" /\ req.answer.c = "json") =>
              (req.status = 200 /\ req.body = req.answer)

\* a request of type "system" has been answered 200 with the model's graph,
\* the model having been asked for a system graph
C16_Witness ==
    /\ req.ep = "fromText"
    /\ req.input.type = "system"
    /\ req.phase = "responded"
    /\ req.status = 200
    /\ req.answer.c = "json" /\ req.answer.v.hasNodes /\ Len(req.answer.v.nodes) >= 1
    /\ req.body = req.answer
    /\ req.messages[2].content = "Turn this idea into a system graph. two services and a database"

\* C17 as stated: a docs request that carries a plan is served, not
\* rejected: the model is called and, when it answers, the response is 200
\* (the Markdown, or the empty string without content); a docs request that
\* carries a prompt is answered 200 with the model's JSON document.
C17_DocsTaskByInputShape ==
    (req.ep = "docs" /\ Settled) =>
        /\ req.input.hasPlan =>
              /\ req.status # 400
              /\ req.calls = 1
              /\ req.exc = "none" => (req.phase = "responded" /\ req.status = 200)
        /\ (req.input.str \notin {Undef, ""} /\ req.exc = "none") =>
              (req.phase = "responded" /\ req.status = 200 /\ req.calls = 1)

(***************************************************************************)
(* Claims about the main page, checked under Spec.                         *)
(***************************************************************************)
NodeView(g) == [i \in DOMAIN g.nodes |-> <<g.nodes[i].id, g.nodes[i].label>>]

EdgeView(g) ==
    [i \in DOMAIN g.edges |->
        <<g.edges[i].id, g.edges[i].source, g.edges[i].target, g.edges[i].label>>]

RenderedNodeView(ns) == [i \in DOMAIN ns |-> <<ns[i].id, ns[i].data.label>>]

RenderedEdgeView(es) == [i \in DOMAIN es |-> <<es[i].id, es[i].source, es[i].target, es[i].label>>]

UserEdgeIds == {ConnectionId(s, t) : s, t \in {"a", "b"}}

\* C3: the step that completes a successful generate or suggest round trip
\* leaves a render state whose nodes and edges are exactly those of the graph
\* the model returned: no node, no user-added edge and no dragged position
\* of the prior render state remains.
C3_ReplaceSemantics ==
    [][(cl.pc = "elk" /\ cl'.outcome = "rendered") =>
          /\ RenderedNodeView(rfNodes') = NodeView(cl.g)
          /\ RenderedEdgeView(rfEdges') = EdgeView(cl.g)
          /\ \A i \in DOMAIN rfNodes' : rfNodes'[i].position # [x |-> 5, y |-> 5]]_vars

\* a suggest round trip has rendered, its snapshot held an edge the user had
\* added, and that edge is gone from the render state
C3_Witness ==
    /\ cl.pc = "idle"
    /\ cl.op = "suggest"
    /\ cl.outcome = "rendered"
    /\ \E k \in DOMAIN cl.snap.edges : cl.snap.edges[k].id \in UserEdgeIds
    /\ \A k \in DOMAIN rfEdges : rfEdges[k].id \notin UserEdgeIds
    /\ RenderedNodeView(rfNodes) = NodeView(cl.g)

\* C10 as stated: when elk throws, the generate or suggest operation still
\* completes with the model's graph rendered, every node at {x: 0, y: 0},
\* and without raising the failure alert.
C10_LayoutFailureNonFatal ==
    [][(cl.pc = "elk" /\ cl'.outcome = "layoutThrew") =>
          /\ RenderedNodeView(rfNodes') = NodeView(cl.g)
          /\ RenderedEdgeView(rfEdges') = EdgeView(cl.g)
          /\ \A i \in DOMAIN rfNodes' : rfNodes'[i].position = [x |-> 0, y |-> 0]
          /\ alerted' = alerted]_vars

\* C18: the step that starts a suggest operation sends a graph that is the
\* projection of the render state at that moment: one node per rendered node
\* with exactly id, label and kind, one edge per rendered edge with exactly
\* id, source, target and label; no position, node type or animated flag is
\* in the request.
C18_SnapshotProjection ==
    [][(cl.pc = "idle" /\ cl'.pc = "fetch" /\ cl'.op = "suggest") =>
          LET g == req'.input.graph IN
          /\ req'.ep = "suggest"
          /\ g.hasNodes /\ g.hasEdges
          /\ DOMAIN g.nodes = DOMAIN rfNodes
          /\ DOMAIN g.edges = DOMAIN rfEdges
          /\ \A i \in DOMAIN g.nodes :
                /\ DOMAIN g.nodes[i] = {"id", "label", "kind"}
                /\ g.nodes[i].id = rfNodes[i].id
                /\ g.nodes[i].label = rfNodes[i].data.label
                /\ g.nodes[i].kind = rfNodes[i].data.kind
          /\ \A i \in DOMAIN g.edges :
                /\ DOMAIN g.edges[i] = {"id", "source", "target", "label"}
                /\ g.edges[i].id = rfEdges[i].id
                /\ g.edges[i].source = rfEdges[i].source
                /\ g.edges[i].target = rfEdges[i].target
                /\ g.edges[i].label = rfEdges[i].label]_vars

\* a suggest request is in flight for a render state that holds a node the
\* user had dragged and an animated edge
C18_Witness ==
    /\ cl.pc = "fetch"
    /\ cl.op = "suggest"
    /\ req.ep = "suggest"
    /\ \E i \in DOMAIN rfNodes : rfNodes[i].position = [x |-> 5, y |-> 5]
    /\ \E i \in DOMAIN rfEdges : rfEdges[i].animated
    /\ Len(req.input.graph.nodes) = Len(rfNodes)
    /\ Len(req.input.graph.edges) = Len(rfEdges)

\* what elk's answer o holds for the node id: the coordinates of a child
\* with that id (0 for a coordinate it lacks), {x: 0, y: 0} without such a child
ReturnedFor(o, id) ==
    IF \E k \in DOMAIN o.children : o.children[k].id = id
    THEN {[x |-> IF o.children[k].hasXY THEN o.children[k].x ELSE 0,
           y |-> IF o.children[k].hasXY THEN o.children[k].y ELSE 0] :
             k \in {k \in DOMAIN o.children : o.children[k].id = id}}
    ELSE {[x |-> 0, y |-> 0]}

\* C19: the step that renders a graph leaves one rendered node per node of
\* the graph, in order, each with a position: the one elk's answer holds for
\* its id, or {x: 0, y: 0} when the answer has no entry or no coordinate
\* for it.
C19_EveryNodePositioned ==
    [][(cl.pc = "elk" /\ cl'.outcome = "rendered") =>
          /\ ~cl'.elk.threw
          /\ DOMAIN rfNodes' = DOMAIN cl.g.nodes
          /\ \A i \in DOMAIN rfNodes' :
                /\ rfNodes'[i].id = cl.g.nodes[i].id
                /\ rfNodes'[i].position \in ReturnedFor(cl'.elk, cl.g.nodes[i].id)]_vars

\* a graph of two nodes has been rendered with the second node a layer and a
\* row away from the first
C19_Witness ==
    /\ cl.pc = "idle"
    /\ cl.outcome = "rendered"
    /\ Len(cl.g.nodes) = 2
    /\ Len(rfNodes) = 2
    /\ Len(cl.elk.children) = 2 /\ cl.elk.children[2].hasXY
    /\ rfNodes[1].position = [x |-> 0, y |-> 0]
    /\ rfNodes[2].position = [x |-> NodeWidth + LayerSpacing, y |-> NodeHeight + NodeNodeSpacing]

\* the body is not a graph: it lacks the nodes or the edges array
NotAGraph(v) == ~v.hasNodes \/ ~v.hasEdges

\* the page's fetch has resolved with a response that fails the operation
FailedResponse ==
    /\ cl.pc = "fetch"
    /\ req.from = "page"
    /\ req.phase \in {"responded", "escaped"}
    /\ \/ HttpStatus(req) \notin 200..299
       \/ req.body.c # "json"
       \/ cl.op \in {"fromText", "suggest"} /\ NotAGraph(req.body.v)
       \/ cl.op = "loadData" /\ req.body.v.hasGraph /\ NotAGraph(req.body.v.graph)

\* C23: a generate, suggest or load whose response is not OK or whose body
\* is not a graph ends at that step with nodes and edges as they were; one
\* whose layout throws ends with nodes and edges as they were; and a step of
\* an operation that changes the nodes or the edges is the step after a
\* successful layout, which sets both from the same graph.
C23_FailureLeavesRenderState ==
    [][/\ (FailedResponse /\ req' # req) =>
             (cl'.pc = "idle" /\ rfNodes' = rfNodes /\ rfEdges' = rfEdges)
       /\ (cl.pc = "elk" /\ cl'.pc = "idle" /\ (cl'.elk.threw \/ NotAGraph(cl.g))) =>
             (rfNodes' = rfNodes /\ rfEdges' = rfEdges)
       /\ (nEdits' = nEdits /\ (rfNodes' # rfNodes \/ rfEdges' # rfEdges)) =>
             /\ cl.pc = "elk" /\ cl'.outcome = "rendered" /\ ~cl'.elk.threw
             /\ RenderedNodeView(rfNodes') = NodeView(cl.g)
             /\ RenderedEdgeView(rfEdges') = EdgeView(cl.g)]_vars

\* a load whose record held no edges array has failed on a canvas that shows
\* a graph, and the graph is still there
C23_Witness ==
    /\ cl.pc = "idle"
    /\ cl.op = "loadData"
    /\ cl.outcome = "typeError"
    /\ cl.g.hasNodes /\ ~cl.g.hasEdges
    /\ Len(rfNodes) = 2
    /\ ~busy

\* C25 as stated: a suggest started on the render state that a generate or
\* a suggest has just rendered, with no edit by the user, sends a snapshot
\* that the suggest handler does not answer with 400.
C25_SuggestAfterRenderAccepted ==
    [][(/\ cl.pc = "idle" /\ cl.op \in {"fromText", "suggest"} /\ cl.outcome = "rendered"
        /\ nEdits = 0
        /\ cl'.pc = "fetch" /\ cl'.op = "suggest") =>
          Handle(req').status # 400]_vars

\* C26: a suggest started on the render state of a graph g, with no edit by
\* the user, sends a snapshot with g's node ids and labels in g's order and
\* g's edges (id, source, target, label) in g's order; each node's kind is
\* g's kind, or "service" where g gave none; no node of the snapshot has a
\* group or data key and no edge has a directed key.
C26_RenderSnapshotRoundTrip ==
    [][(/\ cl.pc = "idle" /\ cl.outcome = "rendered" /\ nEdits = 0
        /\ cl'.pc = "fetch" /\ cl'.op = "suggest") =>
          LET g == cl.g
              s == req'.input.graph
          IN  /\ DOMAIN s.nodes = DOMAIN g.nodes
              /\ DOMAIN s.edges = DOMAIN g.edges
              /\ \A i \in DOMAIN g.nodes :
                    /\ s.nodes[i].id = g.nodes[i].id
                    /\ s.nodes[i].label = g.nodes[i].label
                    /\ s.nodes[i].kind = IF g.nodes[i].kind = Undef THEN "service"
                                         ELSE g.nodes[i].kind
                    /\ {"group", "data"} \cap DOMAIN s.nodes[i] = {}
              /\ \A i \in DOMAIN g.edges :
                    /\ s.edges[i].id = g.edges[i].id
                    /\ s.edges[i].source = g.edges[i].source
                    /\ s.edges[i].target = g.edges[i].target
                    /\ s.edges[i].label = g.edges[i].label
                    /\ "directed" \notin DOMAIN s.edges[i]]_vars

\* a suggest is in flight whose snapshot was taken, without edits, from the
\* render state of a graph with a node without kind, a node with group and
\* data, and a labelled, directed edge
C26_Witness ==
    /\ cl.pc = "fetch"
    /\ cl.op = "suggest"
    /\ nEdits = 0
    /\ nOps = 2
    /\ cl.snap.nodes = <<Node("a", "A", "service"), Node("b", "B", "db")>>
    /\ cl.snap.edges = <<Edge("e1", "a", "b", "calls")>>
    /\ req.input.graph = cl.snap

\* fewer than 10 characters, or no string at all
Short(v) == v = Undef \/ Len(v) < 10

\* a stack that names a type or a framework outside the enums
InvalidStack(st) == st.present /\ (st.type \notin StackTypes \/ st.framework \notin Frameworks)

\* the request fails the input check of its endpoint
FailsInputCheck(r) ==
    \/ r.ep = "stack" /\ Short(r.input.str)
    \/ r.ep = "plan" /\ (Short(r.input.str) \/ InvalidStack(r.input.stack))
    \/ r.ep = "docs" /\ r.input.str \in {Undef, ""}
    \/ r.ep = "estimate" /\ ~r.input.hasPlan

\* C27: a stack-recommend request with requirements shorter than 10
\* characters, a project-plan request with an idea shorter than 10
\* characters or an invalid stack, a docs request without a prompt and an
\* estimate request without a plan never reach a model call and end with a
\* response: 500 from stack-recommend and project-plan, 400 from docs and
\* estimate.
C27_InputChecksPrecedeModelCall ==
    FailsInputCheck(req) =>
        /\ req.calls = 0
        /\ req.phase \in {"received", "responded"}
        /\ req.phase = "responded" =>
              req.status = IF req.ep \in {"stack", "plan"} THEN 500 ELSE 400

\* a project-plan request with a long idea and a framework outside the enum
\* has been answered 500 without a model call
C27_Witness ==
    /\ req.ep = "plan"
    /\ ~Short(req.input.str)
    /\ InvalidStack(req.input.stack)
    /\ req.phase = "responded"
    /\ req.status = 500
    /\ req.calls = 0

====
